---- MODULE Spec2Model ----
(***************************************************************************)
(* Uniform-cost search (src/main.py).  A graph is a mapping from node to   *)
(* an ordered list of (connectedNode, cost) pairs; nodes are the integers  *)
(* 1..NumNodes, ordered as Python orders the labels 'A' < 'B' < 'C' ...    *)
(* One step of the model is one iteration of the `while queue:` loop, or   *)
(* the `return None` that follows it.                                      *)
(***************************************************************************)
EXTENDS Integers, Sequences, FiniteSets, TLC

VARIABLES graph, start, goal, queue, visited, current, pc, result, pushes,
          calls, first, expanded

vars == <<graph, start, goal, queue, visited, current, pc, result, pushes,
          calls, first, expanded>>

\* ---------------------------------------------------------------- bounds
NumNodes == 3
MaxEdges == 3
MaxCost == 1

Nodes == 1..NumNodes
Costs == 0..MaxCost

\* ------------------------------------------------------- tuple comparison
\* Python compares lists lexicographically; a proper prefix is the smaller.
RECURSIVE ListLess(_, _)
ListLess(p, q) ==
    IF q = <<>> THEN FALSE
    ELSE IF p = <<>> THEN TRUE
    ELSE IF Head(p) # Head(q) THEN Head(p) < Head(q)
    ELSE ListLess(Tail(p), Tail(q))

\* The comparison of entries pushed as (node, cost, path): the node decides
\* before the cost.
TupleLessNodeFirst(a, b) ==
    IF a.node # b.node THEN a.node < b.node
    ELSE IF a.cost # b.cost THEN a.cost < b.cost
    ELSE ListLess(a.path, b.path)

\* (cost, node, path) < (cost, node, path) as Python compares tuples.  The
\* field id is bookkeeping of the model (the rank of the heappush that
\* inserted the entry) and takes no part in the comparison.
TupleLess(a, b) ==
    IF a.cost # b.cost THEN a.cost < b.cost
    ELSE IF a.node # b.node THEN a.node < b.node
    ELSE ListLess(a.path, b.path)

\* ------------------------------------------------------------------ heapq
\* Positions are 0-based as in heapq; heap[pos + 1] is Python's heap[pos].
RECURSIVE siftdown_loop(_, _, _, _)
siftdown_loop(heap, startpos, pos, newitem) ==
    IF pos > startpos /\ TupleLess(newitem, heap[((pos - 1) \div 2) + 1])
    THEN siftdown_loop([heap EXCEPT ![pos + 1] = heap[((pos - 1) \div 2) + 1]],
                       startpos, (pos - 1) \div 2, newitem)
    ELSE [heap EXCEPT ![pos + 1] = newitem]

siftdown(heap, startpos, pos) == siftdown_loop(heap, startpos, pos, heap[pos + 1])

\* The loop of _siftup without its look at the right child.
RECURSIVE siftup_loopLeftChild(_, _, _)
siftup_loopLeftChild(heap, pos, endpos) ==
    LET childpos == 2 * pos + 1
    IN  IF childpos < endpos
        THEN siftup_loopLeftChild([heap EXCEPT ![pos + 1] = heap[childpos + 1]],
                                  childpos, endpos)
        ELSE <<heap, pos>>

\* The loop of _siftup: bubble the smaller child up until a leaf is reached.
\* Yields <<heap, pos>>.
RECURSIVE siftup_loop(_, _, _)
siftup_loop(heap, pos, endpos) ==
    LET childpos == 2 * pos + 1
        rightpos == childpos + 1
        smaller  == IF rightpos < endpos
                       /\ ~TupleLess(heap[childpos + 1], heap[rightpos + 1])
                    THEN rightpos ELSE childpos
    IN  IF childpos < endpos
        THEN siftup_loop([heap EXCEPT ![pos + 1] = heap[smaller + 1]], smaller, endpos)
        ELSE <<heap, pos>>

siftup(heap, pos) ==
    LET newitem == heap[pos + 1]
        r == siftup_loop(heap, pos, Len(heap))
    IN  siftdown([r[1] EXCEPT ![r[2] + 1] = newitem], pos, r[2])

\* list.append in the place of heapq.heappush.
heappushAppend(heap, item) == Append(heap, item)

heappush(heap, item) == siftdown(Append(heap, item), 0, Len(heap))

\* list.pop in the place of heapq.heappop.
heappopLast(heap) == <<heap[Len(heap)], SubSeq(heap, 1, Len(heap) - 1)>>

\* heappop yields <<returnitem, heap afterwards>>; heap is not empty.
heappop(heap) ==
    LET lastelt == heap[Len(heap)]
        rest == SubSeq(heap, 1, Len(heap) - 1)
    IN  IF rest # <<>>
        THEN <<rest[1], siftup([rest EXCEPT ![1] = lastelt], 0)>>
        ELSE <<lastelt, rest>>

\* ------------------------------------------------------------ the graphs
\* A graph literal, written as the list of its (source, connectedNode, cost)
\* triples: graph[n] lists the pairs of n's triples in their order.
RECURSIVE EdgeList(_, _)
EdgeList(triples, n) ==
    IF triples = <<>> THEN <<>>
    ELSE IF Head(triples)[1] = n
         THEN <<[node |-> Head(triples)[2], cost |-> Head(triples)[3]]>>
              \o EdgeList(Tail(triples), n)
         ELSE EdgeList(Tail(triples), n)

Sources(triples) == {triples[i][1] : i \in DOMAIN triples}

MkGraph(triples, keys) == [n \in keys |-> EdgeList(triples, n)]

Entry(c, n, p, i) == [cost |-> c, node |-> n, path |-> p, id |-> i]

\* The locals current_cost, current_node, path before the first heappop.
Unbound == Entry(0, 0, <<>>, 0)

Pending == [outcome |-> "pending", path |-> <<>>, cost |-> 0]

\* The nodes the call is about: the keys, the nodes named in an edge list,
\* start and goal.
NodeSet ==
    DOMAIN graph \cup {start, goal}
    \cup UNION {{graph[n][i].node : i \in DOMAIN graph[n]} : n \in DOMAIN graph}

\* ------------------------------------------------------------------ steps
\* The first entry pushed with an empty path.
InitialQueueEmptyPath(s) == heappush(<<>>, Entry(0, s, <<>>, 1))

\* Lines 26-29: the queue after heappush(queue, (0, start, [start])).
InitialQueue(s) == heappush(<<>>, Entry(0, s, <<s>>, 1))

\* The state of a call that has reached the while loop for the first time
\* (lines 26-32): one entry in the queue, nothing visited.  expanded is the
\* history of the call: the entries popped that reached line 58, in order.
Entered ==
    /\ queue = InitialQueue(start)
    /\ visited = {}
    /\ current = Unbound
    /\ pushes = 1
    /\ pc = "loop"
    /\ result = Pending
    /\ calls = 1
    /\ first = Pending
    /\ expanded = <<>>

\* ------------------------------------------------- the graphs of the repo
\* src/main.py, lines 16-20, with A = 1, B = 2, C = 3.
MainGraph ==
    (1 :> <<[node |-> 2, cost |-> 1], [node |-> 3, cost |-> 5]>>)
    @@ (2 :> <<[node |-> 3, cost |-> 2]>>)
    @@ (3 :> <<>>)

\* src/test.py, lines 3-14, with A = 1, B = 2, ... J = 10.
TestGraph ==
    (1 :> <<[node |-> 2, cost |-> 2], [node |-> 3, cost |-> 1], [node |-> 4, cost |-> 7]>>)
    @@ (2 :> <<[node |-> 5, cost |-> 5], [node |-> 6, cost |-> 3]>>)
    @@ (3 :> <<[node |-> 2, cost |-> 4], [node |-> 6, cost |-> 6]>>)
    @@ (4 :> <<[node |-> 7, cost |-> 8], [node |-> 3, cost |-> 2]>>)
    @@ (5 :> <<[node |-> 8, cost |-> 3]>>)
    @@ (6 :> <<[node |-> 8, cost |-> 2], [node |-> 9, cost |-> 4]>>)
    @@ (7 :> <<[node |-> 10, cost |-> 4]>>)
    @@ (8 :> <<[node |-> 9, cost |-> 1], [node |-> 10, cost |-> 2]>>)
    @@ (9 :> <<[node |-> 10, cost |-> 3]>>)
    @@ (10 :> <<>>)

\* Every graph literal of at most MaxEdges edges over Nodes, its triples
\* written source by source; a node without edges may or may not be a key of
\* the mapping.
InitBounded ==
    /\ \E k \in 0..MaxEdges :
         \E triples \in [1..k -> Nodes \X Nodes \X Costs] :
           /\ \A i \in 1..(k - 1) : triples[i][1] <= triples[i + 1][1]
           /\ \E keys \in SUBSET Nodes :
                /\ Sources(triples) \subseteq keys
                /\ graph = MkGraph(triples, keys)
    /\ start \in Nodes
    /\ goal \in Nodes

\* The graphs of the two scripts, searched as they search them (main.py line
\* 75, test.py line 16) and between every other pair of their nodes.
InitScripts ==
    /\ graph \in {MainGraph, TestGraph}
    /\ start \in DOMAIN graph
    /\ goal \in DOMAIN graph

Init == (InitBounded \/ InitScripts) /\ Entered

\* Line 72 returning the locals of the last iteration instead of None.
ReturnLastPath ==
    /\ pc = "loop"
    /\ queue = <<>>
    /\ pc' = "done"
    /\ result' = [outcome |-> "found", path |-> current.path, cost |-> current.cost]
    /\ UNCHANGED <<graph, start, goal, queue, visited, current, pushes, calls, first, expanded>>

\* Line 35 fails and line 72 runs: return None.
ReturnNone ==
    /\ pc = "loop"
    /\ queue = <<>>
    /\ pc' = "done"
    /\ result' = [outcome |-> "None", path |-> <<>>, cost |-> 0]
    /\ UNCHANGED <<graph, start, goal, queue, visited, current, pushes, calls, first, expanded>>

\* The goal test made after line 58: the goal is marked visited before the
\* return.
PopGoalAfterMark ==
    /\ pc = "loop"
    /\ queue # <<>>
    /\ LET popped == heappop(queue)
       IN  /\ popped[1].node = goal
           /\ current' = popped[1]
           /\ queue' = popped[2]
           /\ visited' = visited \cup {goal}
           /\ result' = [outcome |-> "found", path |-> popped[1].path,
                         cost |-> popped[1].cost]
    /\ pc' = "done"
    /\ UNCHANGED <<graph, start, goal, pushes, calls, first, expanded>>

\* Lines 40-47: the entry popped is for the goal.
PopGoal ==
    /\ pc = "loop"
    /\ queue # <<>>
    /\ LET popped == heappop(queue)
       IN  /\ popped[1].node = goal
           /\ current' = popped[1]
           /\ queue' = popped[2]
           /\ result' = [outcome |-> "found", path |-> popped[1].path,
                         cost |-> popped[1].cost]
    /\ pc' = "done"
    /\ UNCHANGED <<graph, start, goal, visited, pushes, calls, first, expanded>>

\* The for loop pushing the path of the popped entry as it is, the connected
\* node not appended.
RECURSIVE PushEdgesSamePath(_, _, _, _, _)
PushEdgesSamePath(q, n, edges, cur, vis) ==
    IF edges = <<>> THEN <<q, n>>
    ELSE IF Head(edges).node \notin vis
         THEN PushEdgesSamePath(heappush(q, Entry(cur.cost + Head(edges).cost,
                                                  Head(edges).node,
                                                  cur.path,
                                                  n + 1)),
                                n + 1, Tail(edges), cur, vis)
         ELSE PushEdgesSamePath(q, n, Tail(edges), cur, vis)

\* The for loop pushing the cost of the edge alone, not the accumulated cost.
RECURSIVE PushEdgesEdgeCost(_, _, _, _, _)
PushEdgesEdgeCost(q, n, edges, cur, vis) ==
    IF edges = <<>> THEN <<q, n>>
    ELSE IF Head(edges).node \notin vis
         THEN PushEdgesEdgeCost(heappush(q, Entry(Head(edges).cost,
                                                  Head(edges).node,
                                                  Append(cur.path, Head(edges).node),
                                                  n + 1)),
                                n + 1, Tail(edges), cur, vis)
         ELSE PushEdgesEdgeCost(q, n, Tail(edges), cur, vis)

\* Lines 61-71: the for loop over the pairs of graph[current_node] left in
\* edges, n entries having been pushed so far.
\* Yields <<queue, pushes>>.
RECURSIVE PushEdges(_, _, _, _, _)
PushEdges(q, n, edges, cur, vis) ==
    IF edges = <<>> THEN <<q, n>>
    ELSE IF Head(edges).node \notin vis
         THEN PushEdges(heappush(q, Entry(cur.cost + Head(edges).cost,
                                          Head(edges).node,
                                          Append(cur.path, Head(edges).node),
                                          n + 1)),
                        n + 1, Tail(edges), cur, vis)
         ELSE PushEdges(q, n, Tail(edges), cur, vis)

\* The stale branch without its continue: the loop goes on to line 58 and to
\* the for loop.
PopStaleExpands ==
    /\ pc = "loop"
    /\ queue # <<>>
    /\ LET popped == heappop(queue)
       IN  /\ popped[1].node # goal
           /\ popped[1].node \in visited
           /\ popped[1].node \in DOMAIN graph
           /\ current' = popped[1]
           /\ expanded' = Append(expanded, popped[1])
           /\ LET r == PushEdges(popped[2], pushes, graph[popped[1].node],
                                 popped[1], visited)
              IN  /\ queue' = r[1]
                  /\ pushes' = r[2]
    /\ UNCHANGED <<graph, start, goal, visited, pc, result, calls, first>>

\* Lines 40-53: the entry popped is for a node already visited.
PopStale ==
    /\ pc = "loop"
    /\ queue # <<>>
    /\ LET popped == heappop(queue)
       IN  /\ popped[1].node # goal
           /\ popped[1].node \in visited
           /\ current' = popped[1]
           /\ queue' = popped[2]
    /\ UNCHANGED <<graph, start, goal, visited, pc, result, pushes, calls, first, expanded>>

\* The expansion without line 58: the node is not added to the visited set.
ExpandNoMark ==
    /\ pc = "loop"
    /\ queue # <<>>
    /\ LET popped == heappop(queue)
       IN  /\ popped[1].node # goal
           /\ popped[1].node \notin visited
           /\ popped[1].node \in DOMAIN graph
           /\ current' = popped[1]
           /\ expanded' = Append(expanded, popped[1])
           /\ visited' = visited
           /\ LET r == PushEdges(popped[2], pushes, graph[popped[1].node],
                                 popped[1], visited')
              IN  /\ queue' = r[1]
                  /\ pushes' = r[2]
    /\ UNCHANGED <<graph, start, goal, pc, result, calls, first>>

\* The expansion without the test of lines 52-53: a node already visited is
\* expanded again.
ExpandVisitedToo ==
    /\ pc = "loop"
    /\ queue # <<>>
    /\ LET popped == heappop(queue)
       IN  /\ popped[1].node # goal
           /\ popped[1].node \in DOMAIN graph
           /\ current' = popped[1]
           /\ expanded' = Append(expanded, popped[1])
           /\ visited' = visited \cup {popped[1].node}
           /\ LET r == PushEdges(popped[2], pushes, graph[popped[1].node],
                                 popped[1], visited')
              IN  /\ queue' = r[1]
                  /\ pushes' = r[2]
    /\ UNCHANGED <<graph, start, goal, pc, result, calls, first>>

\* Lines 40-71: the entry popped is for a node not yet visited.
Expand ==
    /\ pc = "loop"
    /\ queue # <<>>
    /\ LET popped == heappop(queue)
       IN  /\ popped[1].node # goal
           /\ popped[1].node \notin visited
           /\ popped[1].node \in DOMAIN graph
           /\ current' = popped[1]
           /\ expanded' = Append(expanded, popped[1])
           /\ visited' = visited \cup {popped[1].node}
           /\ LET r == PushEdges(popped[2], pushes, graph[popped[1].node],
                                 popped[1], visited')
              IN  /\ queue' = r[1]
                  /\ pushes' = r[2]
    /\ UNCHANGED <<graph, start, goal, pc, result, calls, first>>

\* Lines 40-61: graph[current_node] raises KeyError, after visited.add; the
\* entry counts as expanded, its expansion having begun.
ExpandKeyError ==
    /\ pc = "loop"
    /\ queue # <<>>
    /\ LET popped == heappop(queue)
       IN  /\ popped[1].node # goal
           /\ popped[1].node \notin visited
           /\ popped[1].node \notin DOMAIN graph
           /\ current' = popped[1]
           /\ expanded' = Append(expanded, popped[1])
           /\ queue' = popped[2]
           /\ visited' = visited \cup {popped[1].node}
    /\ pc' = "done"
    /\ result' = [outcome |-> "KeyError", path |-> <<>>, cost |-> 0]
    /\ UNCHANGED <<graph, start, goal, pushes, calls, first>>

Next == ReturnNone \/ PopGoal \/ PopStale \/ Expand \/ ExpandKeyError

Spec == Init /\ [][Next]_vars

\* --------------------------------------------------------- a second call
\* A second call when visited is a set of the module, shared by the calls.
CallAgainSharedVisited ==
    /\ pc = "done"
    /\ calls = 1
    /\ calls' = 2
    /\ first' = result
    /\ queue' = InitialQueue(start)
    /\ current' = Unbound
    /\ pushes' = 1
    /\ pc' = "loop"
    /\ result' = Pending
    /\ expanded' = <<>>
    /\ UNCHANGED <<graph, start, goal, visited>>

\* The caller keeps the result and calls uniform_cost_search(graph, start,
\* goal) again: lines 26-32 run anew.
CallAgain ==
    /\ pc = "done"
    /\ calls = 1
    /\ calls' = 2
    /\ first' = result
    /\ queue' = InitialQueue(start)
    /\ visited' = {}
    /\ current' = Unbound
    /\ pushes' = 1
    /\ pc' = "loop"
    /\ result' = Pending
    /\ expanded' = <<>>
    /\ UNCHANGED <<graph, start, goal>>

SpecTwice == Init /\ [][Next \/ CallAgain]_vars

\* All the orders of the list s.
RECURSIVE Orderings(_)
Orderings(s) ==
    IF s = <<>> THEN {<<>>}
    ELSE UNION {{<<s[i]>> \o p :
                   p \in Orderings(SubSeq(s, 1, i - 1) \o SubSeq(s, i + 1, Len(s)))}
                : i \in DOMAIN s}

\* All the graphs that differ from g only in the order of the pairs inside
\* the lists of the keys in ks.
RECURSIVE Reordered(_, _)
Reordered(g, ks) ==
    IF ks = {} THEN {g}
    ELSE LET n == CHOOSE k \in ks : TRUE
         IN  UNION {{[h EXCEPT ![n] = p] : p \in Orderings(g[n])}
                    : h \in Reordered(g, ks \ {n})}

\* The caller keeps the result and searches a graph whose edge lists hold
\* the same pairs in another order, between the same nodes.
CallReordered ==
    /\ pc = "done"
    /\ calls = 1
    /\ calls' = 2
    /\ first' = result
    /\ graph' \in Reordered(graph, DOMAIN graph)
    /\ queue' = InitialQueue(start)
    /\ visited' = {}
    /\ current' = Unbound
    /\ pushes' = 1
    /\ pc' = "loop"
    /\ result' = Pending
    /\ expanded' = <<>>
    /\ UNCHANGED <<start, goal>>

SpecReordered == Init /\ [][Next \/ CallReordered]_vars

\* The calls on graphs in which every node is a key: graph[current_node]
\* cannot fail.  The loop is the only thing running, so a step that can be
\* taken is taken.
InitTotal == Init /\ DOMAIN graph = NodeSet

NextTotal == ReturnNone \/ PopGoal \/ PopStale \/ Expand

FairSpec == InitTotal /\ [][NextTotal]_vars /\ WF_vars(NextTotal)

\* The calls on graphs that hold an edge of cost -1, every node being a key:
\* no line of uniform_cost_search looks at the sign of a cost.
InitNegative ==
    /\ \E k \in 1..MaxEdges :
         \E triples \in [1..k -> Nodes \X Nodes \X (Costs \cup {-1})] :
           /\ \A i \in 1..(k - 1) : triples[i][1] <= triples[i + 1][1]
           /\ \E i \in 1..k : triples[i][3] < 0
           /\ graph = MkGraph(triples, Nodes)
    /\ start \in Nodes
    /\ goal \in Nodes
    /\ Entered

SpecNegative == InitNegative /\ [][NextTotal]_vars

\* ------------------------------------------------ what the graph contains
HasEdge(m, n) == m \in DOMAIN graph /\ \E i \in DOMAIN graph[m] : graph[m][i].node = n

\* WalkCosts(k)[n]: the total costs of all the walks of at most k edges from
\* start to n, found by enumeration; a walk may pass a node more than once.
RECURSIVE WalkCosts(_)
WalkCosts(k) ==
    IF k = 0 THEN [n \in NodeSet |-> IF n = start THEN {0} ELSE {}]
    ELSE LET w == WalkCosts(k - 1)
         IN  [n \in NodeSet |->
                w[n] \cup UNION {UNION {{c + graph[m][i].cost : c \in w[m]}
                                        : i \in {j \in DOMAIN graph[m] : graph[m][j].node = n}}
                                 : m \in DOMAIN graph}]

\* With costs >= 0 a cheapest walk need not repeat a node, so the walks of at
\* most |NodeSet| edges contain one of minimum cost.
CostsTo(n) == WalkCosts(Cardinality(NodeSet))[n]

Reachable(n) == CostsTo(n) # {}

MinCost(n) == CHOOSE c \in CostsTo(n) : \A d \in CostsTo(n) : c <= d

ReachableAreKeys == \A n \in NodeSet : Reachable(n) => n \in DOMAIN graph

AllAreKeys == NodeSet \subseteq DOMAIN graph

\* The sums of costs over the ways of choosing one edge for each consecutive
\* pair of p; empty when some pair is no edge of the graph.
RECURSIVE PathCosts(_)
PathCosts(p) ==
    IF Len(p) <= 1 THEN {0}
    ELSE IF p[1] \notin DOMAIN graph THEN {}
    ELSE UNION {{graph[p[1]][i].cost + c : c \in PathCosts(Tail(p))}
                : i \in {j \in DOMAIN graph[p[1]] : graph[p[1]][j].node = p[2]}}

Found == pc = "done" /\ result.outcome = "found"

\* C1 (optimality): when every node reachable from start is a key and goal is
\* reachable, the call returns a path, and the cost it returns is the minimum
\* of the costs of all walks from start to goal.
C1_Optimality ==
    (pc = "done" /\ ReachableAreKeys /\ Reachable(goal))
        => (result.outcome = "found" /\ result.cost = MinCost(goal))

\* A returned path of two edges that is cheaper than a direct edge.
C1_Witness ==
    /\ Found
    /\ ReachableAreKeys
    /\ Len(result.path) = 3
    /\ \E i \in DOMAIN graph[start] :
         graph[start][i].node = goal /\ graph[start][i].cost > result.cost

\* C2 (path validity): a returned path starts at start, ends at goal, each
\* consecutive pair is an edge of graph[path[i]], and the returned cost is the
\* sum of the costs of one choice of such edges.
C2_PathValidity ==
    Found =>
        /\ result.path # <<>>
        /\ result.path[1] = start
        /\ result.path[Len(result.path)] = goal
        /\ \A i \in 1..(Len(result.path) - 1) : HasEdge(result.path[i], result.path[i + 1])
        /\ result.cost \in PathCosts(result.path)

\* A returned path of two edges or more with a positive cost, one of its
\* pairs being joined by parallel edges of different costs.
C2_Witness ==
    /\ Found
    /\ Len(result.path) >= 3
    /\ result.cost > 0
    /\ Cardinality(PathCosts(result.path)) > 1

\* C3 (absent key as empty edge list): expanding a node that is no key of the
\* mapping raises nothing, and a start that is no key and is not the goal
\* gives the no-path outcome.
C3_AbsentKeyIsEmpty ==
    /\ result.outcome # "KeyError"
    /\ (pc = "done" /\ start \notin DOMAIN graph /\ start # goal)
           => result.outcome = "None"

\* C4 (unreachable goal): when every node is a key and no walk leads from
\* start to goal, the call returns None with the frontier exhausted, and
\* hands back no path.
C4_UnreachableGoal ==
    (pc = "done" /\ AllAreKeys /\ ~Reachable(goal))
        => (result.outcome = "None" /\ result.path = <<>> /\ queue = <<>>)

\* None is returned after two nodes were expanded.
C4_Witness ==
    /\ pc = "done"
    /\ AllAreKeys
    /\ ~Reachable(goal)
    /\ Cardinality(visited) >= 2
    /\ result.outcome = "None"

\* C5 (trivial path): with start = goal the call returns ([start], 0), also
\* when start has no edges or is no key; nothing was visited and nothing but
\* the first entry was ever pushed.
C5_TrivialPath ==
    (pc = "done" /\ start = goal)
        => /\ result = [outcome |-> "found", path |-> <<start>>, cost |-> 0]
           /\ visited = {}
           /\ pushes = 1

\* The trivial path of a node that is no key of the graph.
C5_Witness == Found /\ start = goal /\ start \notin DOMAIN graph /\ graph # <<>>

\* What one iteration may do: return; or drop the popped entry and nothing
\* else; or add a node to the visited set.
StepShape ==
    \/ pc' = "done"
    \/ (queue # <<>> /\ queue' = heappop(queue)[2] /\ visited' = visited)
    \/ (visited \subseteq visited' /\ visited' # visited)

\* C6 (termination): when every node is a key the loop eventually stops,
\* whatever the cycles of the graph, and every iteration returns, removes a
\* stale entry without inserting, or strictly grows the visited set.
C6_Termination ==
    /\ <>(pc = "done" /\ result.outcome \in {"found", "None"})
    /\ [][StepShape]_vars

\* A call that returned None after expanding both nodes of a zero-cost cycle
\* and a node with a zero-cost self-loop.
C6_Witness ==
    /\ pc = "done"
    /\ AllAreKeys
    /\ \E m, n \in visited :
         /\ m # n
         /\ \E i \in DOMAIN graph[m] : graph[m][i] = [node |-> n, cost |-> 0]
         /\ \E i \in DOMAIN graph[n] : graph[n][i] = [node |-> m, cost |-> 0]
    /\ result.outcome = "None"
    /\ \E n \in visited : \E i \in DOMAIN graph[n] : graph[n][i] = [node |-> n, cost |-> 0]

\* C7 as stated (scenario 2): on the graph of test.py the search from A to J
\* returns cost 9 via the path A, C, F, H, J.
C7_Scenario2AsStated ==
    (pc = "done" /\ graph = TestGraph /\ start = 1 /\ goal = 10)
        => result = [outcome |-> "found", path |-> <<1, 3, 6, 8, 10>>, cost |-> 9]

\* C7 as amended (scenario 2): on the graph of test.py the search from A to J
\* returns cost 9 via the path A, B, F, H, J.
C7_Scenario2 ==
    (pc = "done" /\ graph = TestGraph /\ start = 1 /\ goal = 10)
        => result = [outcome |-> "found", path |-> <<1, 2, 6, 8, 10>>, cost |-> 9]

\* The call of test.py has returned.
C7_Witness == Found /\ graph = TestGraph /\ start = 1 /\ goal = 10

\* C8 as stated (tie-break by insertion order): among the entries of the
\* frontier that have the cost of the entry removed, the one removed was
\* inserted first.
C8_InsertionOrder ==
    [][(pc = "loop" /\ queue # <<>>)
          => \A i \in DOMAIN queue :
                queue[i].cost = current'.cost => current'.id <= queue[i].id]_vars

\* C8 as amended (tie-break by tuple order): the entry removed is the least
\* of the frontier in the order of the tuples (cost, node, path), whenever it
\* was inserted; so a returned path is the least, as a list, of the paths the
\* frontier then holds for goal at the returned cost.
C8_TupleOrder ==
    /\ [][(pc = "loop" /\ queue # <<>>)
             => \A i \in DOMAIN queue : ~TupleLess(queue[i], current')]_vars
    /\ [](Found => \A i \in DOMAIN queue :
                     (queue[i].node = goal /\ queue[i].cost = result.cost)
                         => ~ListLess(queue[i].path, result.path))

\* The path returned was inserted after another path to goal of the same
\* cost, which is still in the frontier.
C8_Witness ==
    /\ Found
    /\ \E i \in DOMAIN queue :
         /\ queue[i].node = goal
         /\ queue[i].cost = result.cost
         /\ queue[i].id < current.id

\* C9 (edge-order independence): a search of a graph that differs only in the
\* order of the pairs inside the edge lists ends as the first search did
\* (path, no path or fault) and returns the same cost.
C9_EdgeOrderIndependence ==
    (pc = "done" /\ calls = 2)
        => (result.outcome = first.outcome /\ result.cost = first.cost)

\* Both searches found a path of two edges or more, in graphs whose lists
\* differ in order at the start node and hold pairs of different costs.
C9_Witness ==
    /\ Found
    /\ calls = 2
    /\ Len(result.path) >= 3
    /\ Len(graph[start]) >= 2
    /\ graph[start][1].cost < graph[start][2].cost
    /\ result.cost > 0

\* C10 (purity and idempotence): no step of a call changes the graph, and a
\* second call with the same graph, start and goal returns what the first
\* returned.
C10_Idempotence ==
    /\ [][graph' = graph]_vars
    /\ []((pc = "done" /\ calls = 2) => result = first)

\* The second call has returned a path after visiting two nodes or more.
C10_Witness ==
    /\ Found
    /\ calls = 2
    /\ first.outcome = "found"
    /\ Cardinality(visited) >= 2

ExpandedNodes == {expanded[i].node : i \in DOMAIN expanded}

\* C11 (a node is expanded at most once): no node occurs twice among the
\* entries expanded, whatever the number of entries pushed for it, and the
\* nodes expanded are the nodes visited.
C11_ExpandedOnce ==
    /\ \A i, j \in DOMAIN expanded : expanded[i].node = expanded[j].node => i = j
    /\ ExpandedNodes = visited

\* A node was expanded once although a second entry for it was pushed and
\* popped.
C11_Witness ==
    /\ current.node \in visited
    /\ \A i \in DOMAIN expanded : expanded[i] # current
    /\ pushes >= 3

\* C12 (finalization at minimum cost): the cost of every entry expanded is
\* the minimum of the costs of the walks from start to its node.
C12_FinalizedAtMinimum ==
    \A i \in DOMAIN expanded : expanded[i].cost = MinCost(expanded[i].node)

\* A node was expanded at a positive cost, over a path of two edges, while a
\* dearer entry for it was in the frontier.
C12_Witness ==
    \E i \in DOMAIN expanded :
        /\ expanded[i].cost > 0
        /\ Len(expanded[i].path) = 3
        /\ \E j \in DOMAIN queue :
             queue[j].node = expanded[i].node /\ queue[j].cost > expanded[i].cost

\* C13 (monotone dequeue order): the entry removed costs no less than the
\* entry removed before it, and no more than any entry of the frontier it is
\* removed from.
C13_MonotoneDequeue ==
    [][(pc = "loop" /\ queue # <<>>)
          => /\ current # Unbound => current.cost <= current'.cost
             /\ \A i \in DOMAIN queue : current'.cost <= queue[i].cost]_vars

\* Three entries were removed at rising costs and a dearer one is left.
C13_Witness ==
    /\ Len(expanded) >= 2
    /\ expanded[1].cost < expanded[2].cost
    /\ expanded[2].cost < current.cost
    /\ \E i \in DOMAIN queue : current.cost < queue[i].cost

\* The entry e holds a path from start to its node along edges of the graph,
\* at a cost that is the sum of the costs of edges along it.
WellFormed(e) ==
    /\ e.path # <<>>
    /\ e.path[1] = start
    /\ e.path[Len(e.path)] = e.node
    /\ \A i \in 1..(Len(e.path) - 1) : HasEdge(e.path[i], e.path[i + 1])
    /\ e.cost \in PathCosts(e.path)

\* C14 (frontier entry invariant): every entry of the frontier holds a path
\* that begins with start, ends with the entry's node and follows edges of the
\* graph, and a cost that is the sum of the costs of the edges taken.
C14_FrontierEntries == \A i \in DOMAIN queue : WellFormed(queue[i])

\* The frontier holds two entries for one node, of different costs, one of
\* them over a path of two edges.
C14_Witness ==
    \E i, j \in DOMAIN queue :
        /\ queue[i].node = queue[j].node
        /\ queue[i].cost < queue[j].cost
        /\ Len(queue[i].path) = 3

\* C15 (stale entries are discarded without effect): when the entry popped is
\* for a node that is not the goal and is already visited, the step removes
\* that entry from the frontier and changes nothing else but the locals.
C15_StaleDiscarded ==
    [][(pc = "loop" /\ queue # <<>>
        /\ heappop(queue)[1].node # goal
        /\ heappop(queue)[1].node \in visited)
          => /\ queue' = heappop(queue)[2]
             /\ current' = heappop(queue)[1]
             /\ UNCHANGED <<graph, start, goal, visited, expanded, pushes, pc,
                            result, calls, first>>]_vars

\* A stale entry was just discarded for a node that has edges, other entries
\* being left in the frontier.
C15_Witness ==
    /\ pc = "loop"
    /\ current.node \in visited
    /\ \A i \in DOMAIN expanded : expanded[i] # current
    /\ graph[current.node] # <<>>
    /\ queue # <<>>

RECURSIVE SumOfLengths(_, _)
SumOfLengths(g, ks) ==
    IF ks = {} THEN 0
    ELSE LET n == CHOOSE k \in ks : TRUE
         IN  Len(g[n]) + SumOfLengths(g, ks \ {n})

NumEdges == SumOfLengths(graph, DOMAIN graph)

Least(S) == CHOOSE c \in S : \A d \in S : c <= d

HasNegativeEdge ==
    \E n \in DOMAIN graph : \E i \in DOMAIN graph[n] : graph[n][i].cost < 0

\* No walk from start gets cheaper by a further edge once it has as many
\* edges as there are nodes: no cycle of negative cost can be reached, and
\* the minimum over all walks exists.
NoNegativeCycle ==
    \A n \in NodeSet :
        Reachable(n) =>
            Least(WalkCosts(Cardinality(NodeSet) - 1)[n])
                = Least(WalkCosts(2 * Cardinality(NodeSet))[n])

\* C16 (negative costs fail silently): on a graph with a negative cost the
\* call ends as on any other, with a path or None and no fault; a path is
\* returned whenever goal can be reached, it is a path of the graph at the sum
\* of its costs, and that cost is never below the minimum.  The witness is a
\* call that returns a cost above the minimum.
C16_NegativeCostsUnchecked ==
    pc = "done" =>
        /\ result.outcome \in {"found", "None"}
        /\ Reachable(goal) <=> result.outcome = "found"
        /\ result.outcome = "found"
              => /\ WellFormed([cost |-> result.cost, node |-> goal,
                                path |-> result.path])
                 /\ result.cost >= MinCost(goal)

\* A path was returned at a cost above the minimum, in a graph with a
\* negative cost and no cycle of negative cost.
C16_Witness ==
    /\ Found
    /\ HasNegativeEdge
    /\ NoNegativeCycle
    /\ result.cost > MinCost(goal)

\* C17 (bounded insertions): the entries ever pushed number at most one more
\* than the edges of the graph, and so do the entries of the frontier.
C17_BoundedInsertions ==
    /\ pushes <= 1 + NumEdges
    /\ Len(queue) <= 1 + NumEdges

\* Every edge of a graph of three edges or more gave an entry, and two of
\* the entries are in the frontier together.
C17_Witness ==
    /\ NumEdges >= 3
    /\ pushes = 1 + NumEdges
    /\ Len(queue) >= 2

\* C18 (immediate return at the goal): the step that pops an entry for goal
\* returns the path and the cost of that entry and leaves the visited set and
\* the frontier's other entries as they are; goal is never visited and never
\* expanded.
C18_ImmediateReturn ==
    /\ [][(pc = "loop" /\ queue # <<>> /\ heappop(queue)[1].node = goal)
             => /\ pc' = "done"
                /\ result' = [outcome |-> "found",
                              path |-> heappop(queue)[1].path,
                              cost |-> heappop(queue)[1].cost]
                /\ queue' = heappop(queue)[2]
                /\ UNCHANGED <<visited, expanded, pushes>>]_vars
    /\ [](goal \notin visited /\ goal \notin ExpandedNodes)

\* A path of two edges or more was returned to a goal that has edges, other
\* entries being left in the frontier.
C18_Witness ==
    /\ Found
    /\ Len(result.path) >= 3
    /\ goal \in DOMAIN graph
    /\ graph[goal] # <<>>
    /\ queue # <<>>

====
